---- MODULE Spec2Model ----
(***************************************************************************)
(* Model of the uchygiene check engine (src/src/uchygiene/checks.py) over  *)
(* the metadata accessor UCHygieneClient (src/src/uchygiene/client.py).    *)
(*                                                                         *)
(* A str is a sequence of one-character strings, so that the f-string     *)
(* "{catalog}.{schema}.{table}" and str.startswith are computed and not    *)
(* assumed.  An Optional[str] (or Optional[list]) is <<>> for None and     *)
(* <<v>> for the value v.  A call that may raise returns                   *)
(* [raised |-> TRUE] or [raised |-> FALSE, value |-> v].                   *)
(***************************************************************************)
EXTENDS Integers, Sequences, FiniteSets, TLC

VARIABLES workspace, pc, call, ret, stdout

vars == <<workspace, pc, call, ret, stdout>>

(* ------------------------------ bounds -------------------------------- *)

MaxCatalogs == 2

MaxSchemas == 2

MaxTables == 2

MaxCols == 2

\* the longest detail list handed to the console reporter
MaxDetail == 7

(* --------------------------- python values ---------------------------- *)

None == <<>>

Some(v) == <<v>>

\* bool(x) for x : Optional[str]: None and "" are falsy.
Truthy(x) == x # None /\ x[1] # <<>>

Raise == [raised |-> TRUE, value |-> <<>>]

Return(v) == [raised |-> FALSE, value |-> v]

\* str.startswith
StartsWith(s, prefix) ==
  /\ Len(s) >= Len(prefix)
  /\ SubSeq(s, 1, Len(prefix)) = prefix

Dot == <<".">>

\* f"{catalog_name}.{schema_name}"
SchemaFullName(catalog_name, schema_name) == catalog_name \o Dot \o schema_name

\* Mutant of TableFullName: the catalog name is left out of the f-string.
TableFullName_no_catalog(catalog_name, schema_name, table_name) ==
  schema_name \o Dot \o table_name

\* f"{catalog_name}.{schema_name}.{table.name}"
TableFullName(catalog_name, schema_name, table_name) ==
  catalog_name \o Dot \o schema_name \o Dot \o table_name

\* CheckResult; the message is a rendering of object_name and of
\* len(details["columns"]) and is left out.  details is a set of
\* <<key, value>> pairs.
CheckResult(check_name, severity, object_type, object_name, details) ==
  [check_name |-> check_name, severity |-> severity, object_type |-> object_type,
   object_name |-> object_name, details |-> details]

(* ------------------------------ accessor ------------------------------ *)
\* The workspace is the remote metadata snapshot the SDK serves:
\*   workspace.catalogs     [raised, value: Seq(CatalogInfo)]
\*   CatalogInfo            [name, comment, schemas: [raised, value: Seq(SchemaInfo)]]
\*   SchemaInfo             [name, comment, tables: [raised, value: Seq(TableInfo)]]
\*   TableInfo              [name, comment, owner, detail: [raised, value: Optional columns]]
\*   ColumnInfo             [name, comment]

list_catalogs(w) == w.catalogs

list_schemas(w, catalog_name) ==
  LET cs == w.catalogs.value
      hit == {i \in 1..Len(cs) : cs[i].name = catalog_name}
  IN IF w.catalogs.raised \/ hit = {} THEN Raise
     ELSE cs[CHOOSE i \in hit : \A j \in hit : i <= j].schemas

list_tables(w, catalog_name, schema_name) ==
  LET sl == list_schemas(w, catalog_name)
      ss == sl.value
      hit == {i \in 1..Len(ss) : ss[i].name = schema_name}
  IN IF sl.raised \/ hit = {} THEN Raise
     ELSE ss[CHOOSE i \in hit : \A j \in hit : i <= j].tables

\* tables.get(full_name): the table whose three-part name is full_name.
get_table(w, full_name) ==
  LET cs == w.catalogs.value
      hit == {p \in UNION {UNION {{<<i, j, k>> : k \in 1..Len(cs[i].schemas.value[j].tables.value)}
                                   : j \in 1..Len(cs[i].schemas.value)}
                           : i \in 1..Len(cs)} :
                TableFullName(cs[p[1]].name,
                              cs[p[1]].schemas.value[p[2]].name,
                              cs[p[1]].schemas.value[p[2]].tables.value[p[3]].name) = full_name}
  IN IF hit = {} THEN Raise
     ELSE LET p == CHOOSE q \in hit : TRUE
          IN cs[p[1]].schemas.value[p[2]].tables.value[p[3]].detail

\* table = self.get_table(full_name); return table.columns or []
get_table_columns(w, full_name) ==
  LET t == get_table(w, full_name)
  IN IF t.raised THEN Raise
     ELSE Return(IF t.value = None THEN <<>> ELSE t.value[1])

\* Mutant of CatalogSelected: "==" where the code has "!=".
CatalogSelected_inverted(catalog_filter, name) ==
  ~(Truthy(catalog_filter) /\ name = catalog_filter[1])

\* "if catalog_filter and catalog.name != catalog_filter: continue" (negated)
CatalogSelected(catalog_filter, name) ==
  ~(Truthy(catalog_filter) /\ name # catalog_filter[1])

\* "if schema_filter and schema.name != schema_filter: continue" (negated)
SchemaSelected(schema_filter, name) ==
  ~(Truthy(schema_filter) /\ name # schema_filter[1])

\* The characters of the names, in code point order.
Alphabet ==
  <<".", "0", "1", "2", "3", "4", "5", "6", "7", "8", "9", "_",
    "a", "b", "c", "d", "e", "f", "g", "h", "i", "j", "k", "l", "m",
    "n", "o", "p", "q", "r", "s", "t", "u", "v", "w", "x", "y", "z">>

Ord(ch) == CHOOSE n \in 1..Len(Alphabet) : Alphabet[n] = ch

\* a < b for two str
RECURSIVE StrLess(_, _)
StrLess(a, b) ==
  IF b = <<>> THEN FALSE
  ELSE IF a = <<>> THEN TRUE
  ELSE IF a[1] # b[1] THEN Ord(a[1]) < Ord(b[1])
  ELSE StrLess(Tail(a), Tail(b))

\* sorted(tables, key=lambda t: t.name)
RECURSIVE SortedByName(_)
SortedByName(tables) ==
  IF tables = <<>> THEN <<>>
  ELSE LET k == CHOOSE n \in 1..Len(tables) :
                  \A m \in 1..Len(tables) :
                    ~StrLess(tables[m].name, tables[n].name) /\ (tables[m].name = tables[n].name => n <= m)
       IN <<tables[k]>>
          \o SortedByName(SubSeq(tables, 1, k - 1) \o SubSeq(tables, k + 1, Len(tables)))

\* Mutant of iter_all_tables' inner loop: "for table in sorted(tables, ...)".
RECURSIVE YieldTables_sorted(_, _, _, _)
YieldTables_sorted(catalog_name, schema_name, tables, k) ==
  IF k > Len(tables) THEN <<>>
  ELSE <<[catalog_name |-> catalog_name, schema_name |-> schema_name,
          table |-> SortedByName(tables)[k]]>>
       \o YieldTables_sorted(catalog_name, schema_name, tables, k + 1)

\* for table in tables: yield catalog.name, schema.name, table
RECURSIVE YieldTables(_, _, _, _)
YieldTables(catalog_name, schema_name, tables, k) ==
  IF k > Len(tables) THEN <<>>
  ELSE <<[catalog_name |-> catalog_name, schema_name |-> schema_name, table |-> tables[k]]>>
       \o YieldTables(catalog_name, schema_name, tables, k + 1)

\* Mutant of IterSchemas: "break" where the code has "continue" when
\* list_tables fails.
RECURSIVE IterSchemas_break(_, _, _, _, _)
IterSchemas_break(w, catalog_name, schemas, j, schema_filter) ==
  IF j > Len(schemas) THEN <<>>
  ELSE LET schema == schemas[j]
           rest == IterSchemas_break(w, catalog_name, schemas, j + 1, schema_filter)
       IN IF ~SchemaSelected(schema_filter, schema.name) THEN rest
          ELSE LET tables == list_tables(w, catalog_name, schema.name)
               IN IF tables.raised THEN <<>>
                  ELSE YieldTables(catalog_name, schema.name, tables.value, 1) \o rest

\* the loop over the schemas of one catalog
RECURSIVE IterSchemas(_, _, _, _, _)
IterSchemas(w, catalog_name, schemas, j, schema_filter) ==
  IF j > Len(schemas) THEN <<>>
  ELSE LET schema == schemas[j]
           rest == IterSchemas(w, catalog_name, schemas, j + 1, schema_filter)
       IN IF ~SchemaSelected(schema_filter, schema.name) THEN rest
          ELSE LET tables == list_tables(w, catalog_name, schema.name)
               IN IF tables.raised THEN rest
                  ELSE YieldTables(catalog_name, schema.name, tables.value, 1) \o rest

\* Mutant of IterCatalogs: "break" where the code has "continue" when
\* list_schemas fails.
RECURSIVE IterCatalogs_break(_, _, _, _, _)
IterCatalogs_break(w, catalogs, i, catalog_filter, schema_filter) ==
  IF i > Len(catalogs) THEN <<>>
  ELSE LET catalog == catalogs[i]
           rest == IterCatalogs_break(w, catalogs, i + 1, catalog_filter, schema_filter)
       IN IF ~CatalogSelected(catalog_filter, catalog.name) THEN rest
          ELSE LET schemas == list_schemas(w, catalog.name)
               IN IF schemas.raised THEN <<>>
                  ELSE IterSchemas(w, catalog.name, schemas.value, 1, schema_filter) \o rest

\* Mutant of IterCatalogs: schema_filter applies only under a
\* catalog_filter ("requires catalog_filter", client.py:130).
RECURSIVE IterCatalogs_needs_catalog_filter(_, _, _, _, _)
IterCatalogs_needs_catalog_filter(w, catalogs, i, catalog_filter, schema_filter) ==
  IF i > Len(catalogs) THEN <<>>
  ELSE LET catalog == catalogs[i]
           rest == IterCatalogs_needs_catalog_filter(w, catalogs, i + 1,
                                                     catalog_filter, schema_filter)
       IN IF ~CatalogSelected(catalog_filter, catalog.name) THEN rest
          ELSE LET schemas == list_schemas(w, catalog.name)
               IN IF schemas.raised THEN rest
                  ELSE IterSchemas(w, catalog.name, schemas.value, 1,
                                   IF Truthy(catalog_filter) THEN schema_filter ELSE None)
                       \o rest

\* the loop over the catalogs
RECURSIVE IterCatalogs(_, _, _, _, _)
IterCatalogs(w, catalogs, i, catalog_filter, schema_filter) ==
  IF i > Len(catalogs) THEN <<>>
  ELSE LET catalog == catalogs[i]
           rest == IterCatalogs(w, catalogs, i + 1, catalog_filter, schema_filter)
       IN IF ~CatalogSelected(catalog_filter, catalog.name) THEN rest
          ELSE LET schemas == list_schemas(w, catalog.name)
               IN IF schemas.raised THEN rest
                  ELSE IterSchemas(w, catalog.name, schemas.value, 1, schema_filter) \o rest

\* Mutant of iter_all_tables: list_catalogs inside a try that yields
\* nothing on failure.
iter_all_tables_guarded(w, catalog_filter, schema_filter) ==
  LET catalogs == list_catalogs(w)
  IN IF catalogs.raised THEN Return(<<>>)
     ELSE Return(IterCatalogs(w, catalogs.value, 1, catalog_filter, schema_filter))

\* The generator, as the sequence it yields; a failure of list_catalogs is
\* raised at the first next(), before anything is yielded.
iter_all_tables(w, catalog_filter, schema_filter) ==
  LET catalogs == list_catalogs(w)
  IN IF catalogs.raised THEN Raise
     ELSE Return(IterCatalogs(w, catalogs.value, 1, catalog_filter, schema_filter))

(* ------------------------------- checks ------------------------------- *)

\* "if not catalog.comment" / "if not table.owner"
Missing(x) == ~Truthy(x)

\* Mutant of CatalogCommentsLoop: "if catalog.comment is None".
RECURSIVE CatalogCommentsLoop_is_none(_, _)
CatalogCommentsLoop_is_none(catalogs, i) ==
  IF i > Len(catalogs) THEN <<>>
  ELSE (IF catalogs[i].comment = None
        THEN <<CheckResult("catalog_comment", "WARNING", "catalog", catalogs[i].name, {})>>
        ELSE <<>>)
       \o CatalogCommentsLoop_is_none(catalogs, i + 1)

RECURSIVE CatalogCommentsLoop(_, _)
CatalogCommentsLoop(catalogs, i) ==
  IF i > Len(catalogs) THEN <<>>
  ELSE (IF Missing(catalogs[i].comment)
        THEN <<CheckResult("catalog_comment", "WARNING", "catalog", catalogs[i].name, {})>>
        ELSE <<>>)
       \o CatalogCommentsLoop(catalogs, i + 1)

check_catalog_comments(w) ==
  LET catalogs == list_catalogs(w)
  IN IF catalogs.raised THEN Raise
     ELSE Return(CatalogCommentsLoop(catalogs.value, 1))

RECURSIVE SchemaCommentsOf(_, _, _)
SchemaCommentsOf(catalog_name, schemas, j) ==
  IF j > Len(schemas) THEN <<>>
  ELSE (IF Missing(schemas[j].comment)
        THEN <<CheckResult("schema_comment", "WARNING", "schema",
                           SchemaFullName(catalog_name, schemas[j].name), {})>>
        ELSE <<>>)
       \o SchemaCommentsOf(catalog_name, schemas, j + 1)

RECURSIVE SchemaCommentsLoop(_, _, _, _)
SchemaCommentsLoop(w, catalogs, i, catalog_filter) ==
  IF i > Len(catalogs) THEN <<>>
  ELSE LET catalog == catalogs[i]
           rest == SchemaCommentsLoop(w, catalogs, i + 1, catalog_filter)
       IN IF ~CatalogSelected(catalog_filter, catalog.name) THEN rest
          ELSE LET schemas == list_schemas(w, catalog.name)
               IN IF schemas.raised THEN rest
                  ELSE SchemaCommentsOf(catalog.name, schemas.value, 1) \o rest

check_schema_comments(w, catalog_filter) ==
  LET catalogs == list_catalogs(w)
  IN IF catalogs.raised THEN Raise
     ELSE Return(SchemaCommentsLoop(w, catalogs.value, 1, catalog_filter))

RECURSIVE TableCommentsLoop(_, _)
TableCommentsLoop(triples, n) ==
  IF n > Len(triples) THEN <<>>
  ELSE LET y == triples[n]
       IN (IF Missing(y.table.comment)
           THEN <<CheckResult("table_comment", "WARNING", "table",
                    TableFullName(y.catalog_name, y.schema_name, y.table.name), {})>>
           ELSE <<>>)
          \o TableCommentsLoop(triples, n + 1)

check_table_comments(w, catalog_filter, schema_filter) ==
  LET it == iter_all_tables(w, catalog_filter, schema_filter)
  IN IF it.raised THEN Raise ELSE Return(TableCommentsLoop(it.value, 1))

\* Mutant of columns_without_comments: "if col.comment is None".
RECURSIVE columns_without_comments_is_none(_, _)
columns_without_comments_is_none(columns, k) ==
  IF k > Len(columns) THEN <<>>
  ELSE (IF columns[k].comment = None THEN <<columns[k].name>> ELSE <<>>)
       \o columns_without_comments_is_none(columns, k + 1)

\* [col.name for col in columns if not col.comment]
RECURSIVE columns_without_comments(_, _)
columns_without_comments(columns, k) ==
  IF k > Len(columns) THEN <<>>
  ELSE (IF Missing(columns[k].comment) THEN <<columns[k].name>> ELSE <<>>)
       \o columns_without_comments(columns, k + 1)

\* the body of the loop of check_column_comments for one yielded table
ColumnCommentsOf(w, y) ==
  LET full_name == TableFullName(y.catalog_name, y.schema_name, y.table.name)
      columns == get_table_columns(w, full_name)
  IN IF columns.raised THEN <<>>
     ELSE LET missing == columns_without_comments(columns.value, 1)
          IN IF missing # <<>>
             THEN <<CheckResult("column_comment", "INFO", "table", full_name,
                                {<<"columns", missing>>})>>
             ELSE <<>>

\* Mutant of ColumnCommentsLoop: "break" where the code has "continue"
\* when get_table_columns fails.
RECURSIVE ColumnCommentsLoop_break(_, _, _)
ColumnCommentsLoop_break(w, triples, n) ==
  IF n > Len(triples) THEN <<>>
  ELSE IF get_table_columns(w, TableFullName(triples[n].catalog_name,
                                             triples[n].schema_name,
                                             triples[n].table.name)).raised
       THEN <<>>
       ELSE ColumnCommentsOf(w, triples[n]) \o ColumnCommentsLoop_break(w, triples, n + 1)

RECURSIVE ColumnCommentsLoop(_, _, _)
ColumnCommentsLoop(w, triples, n) ==
  IF n > Len(triples) THEN <<>>
  ELSE ColumnCommentsOf(w, triples[n]) \o ColumnCommentsLoop(w, triples, n + 1)

\* Mutant of check_column_comments: get_table_columns outside the try.
check_column_comments_unguarded(w, catalog_filter, schema_filter) ==
  LET it == iter_all_tables(w, catalog_filter, schema_filter)
  IN IF it.raised THEN Raise
     ELSE IF \E n \in 1..Len(it.value) :
               get_table_columns(w, TableFullName(it.value[n].catalog_name,
                                                  it.value[n].schema_name,
                                                  it.value[n].table.name)).raised
          THEN Raise
          ELSE Return(ColumnCommentsLoop(w, it.value, 1))

check_column_comments(w, catalog_filter, schema_filter) ==
  LET it == iter_all_tables(w, catalog_filter, schema_filter)
  IN IF it.raised THEN Raise ELSE Return(ColumnCommentsLoop(w, it.value, 1))

RECURSIVE TableOwnersLoop(_, _)
TableOwnersLoop(triples, n) ==
  IF n > Len(triples) THEN <<>>
  ELSE LET y == triples[n]
       IN (IF Missing(y.table.owner)
           THEN <<CheckResult("table_owner", "WARNING", "table",
                    TableFullName(y.catalog_name, y.schema_name, y.table.name), {})>>
           ELSE <<>>)
          \o TableOwnersLoop(triples, n + 1)

check_table_owners(w, catalog_filter, schema_filter) ==
  LET it == iter_all_tables(w, catalog_filter, schema_filter)
  IN IF it.raised THEN Raise ELSE Return(TableOwnersLoop(it.value, 1))

information_schema ==
  <<"i", "n", "f", "o", "r", "m", "a", "t", "i", "o", "n", "_",
    "s", "c", "h", "e", "m", "a">>

\* Mutant of IsSystemSchema: schema.name == "information_schema".
IsSystemSchema_equal(name) == name = information_schema

\* schema.name.startswith("information_schema")
IsSystemSchema(name) == StartsWith(name, information_schema)

\* Mutant of EmptySchemaOf: the test of the table count is missing.
EmptySchemaOf_any_count(w, catalog_name, schema) ==
  IF IsSystemSchema(schema.name) THEN <<>>
  ELSE LET tables == list_tables(w, catalog_name, schema.name)
       IN IF tables.raised THEN <<>>
          ELSE <<CheckResult("empty_schema", "INFO", "schema",
                             SchemaFullName(catalog_name, schema.name), {})>>

\* the body of the inner loop of check_empty_schemas for one schema
EmptySchemaOf(w, catalog_name, schema) ==
  IF IsSystemSchema(schema.name) THEN <<>>
  ELSE LET tables == list_tables(w, catalog_name, schema.name)
       IN IF tables.raised THEN <<>>
          ELSE IF Len(tables.value) = 0
               THEN <<CheckResult("empty_schema", "INFO", "schema",
                                  SchemaFullName(catalog_name, schema.name), {})>>
               ELSE <<>>

RECURSIVE EmptySchemasOf(_, _, _, _)
EmptySchemasOf(w, catalog_name, schemas, j) ==
  IF j > Len(schemas) THEN <<>>
  ELSE EmptySchemaOf(w, catalog_name, schemas[j])
       \o EmptySchemasOf(w, catalog_name, schemas, j + 1)

RECURSIVE EmptySchemasLoop(_, _, _, _)
EmptySchemasLoop(w, catalogs, i, catalog_filter) ==
  IF i > Len(catalogs) THEN <<>>
  ELSE LET catalog == catalogs[i]
           rest == EmptySchemasLoop(w, catalogs, i + 1, catalog_filter)
       IN IF ~CatalogSelected(catalog_filter, catalog.name) THEN rest
          ELSE LET schemas == list_schemas(w, catalog.name)
               IN IF schemas.raised THEN rest
                  ELSE EmptySchemasOf(w, catalog.name, schemas.value, 1) \o rest

check_empty_schemas(w, catalog_filter) ==
  LET catalogs == list_catalogs(w)
  IN IF catalogs.raised THEN Raise
     ELSE Return(EmptySchemasLoop(w, catalogs.value, 1, catalog_filter))

\* results.extend(check(...)): an exception of the check leaves run_all_checks.
Extend(results, r) ==
  IF results.raised \/ r.raised THEN Raise ELSE Return(results.value \o r.value)

\* Mutant of run_all_checks: the table-owner check is left out.
run_all_checks_no_owners(w, catalog_filter, schema_filter) ==
  LET r0 == Return(<<>>)
      r1 == Extend(r0, check_catalog_comments(w))
      r2 == Extend(r1, check_schema_comments(w, catalog_filter))
      r3 == Extend(r2, check_table_comments(w, catalog_filter, schema_filter))
      r4 == Extend(r3, check_column_comments(w, catalog_filter, schema_filter))
      r6 == Extend(r4, check_empty_schemas(w, catalog_filter))
  IN r6

\* Mutant of run_all_checks: catalog_filter is not passed to the
\* schema-comment check.
run_all_checks_unfiltered_schemas(w, catalog_filter, schema_filter) ==
  LET r0 == Return(<<>>)
      r1 == Extend(r0, check_catalog_comments(w))
      r2 == Extend(r1, check_schema_comments(w, None))
      r3 == Extend(r2, check_table_comments(w, catalog_filter, schema_filter))
      r4 == Extend(r3, check_column_comments(w, catalog_filter, schema_filter))
      r5 == Extend(r4, check_table_owners(w, catalog_filter, schema_filter))
      r6 == Extend(r5, check_empty_schemas(w, catalog_filter))
  IN r6

run_all_checks(w, catalog_filter, schema_filter) ==
  LET r0 == Return(<<>>)
      r1 == Extend(r0, check_catalog_comments(w))
      r2 == Extend(r1, check_schema_comments(w, catalog_filter))
      r3 == Extend(r2, check_table_comments(w, catalog_filter, schema_filter))
      r4 == Extend(r3, check_column_comments(w, catalog_filter, schema_filter))
      r5 == Extend(r4, check_table_owners(w, catalog_filter, schema_filter))
      r6 == Extend(r5, check_empty_schemas(w, catalog_filter))
  IN r6

(* ------------------------------ reporter ------------------------------ *)

\* the 5 of "len(value) > 5", "value[:5]" and "len(value) - 5"
TruncateAt == 5

DecimalDigit == <<"0", "1", "2", "3", "4", "5", "6", "7", "8", "9">>

\* str(n) for an int n >= 0
RECURSIVE IntToStr(_)
IntToStr(n) ==
  IF n < 10 THEN <<DecimalDigit[n + 1]>>
  ELSE IntToStr(n \div 10) \o <<DecimalDigit[(n % 10) + 1]>>

\* ", ".join(str(v) for v in value), for a list of str
RECURSIVE JoinComma(_)
JoinComma(value) ==
  IF value = <<>> THEN <<>>
  ELSE IF Len(value) = 1 THEN value[1]
  ELSE value[1] \o <<",", " ">> \o JoinComma(Tail(value))

\* Mutant of display: "len(value) >= 5".
display_from_five(value) ==
  IF Len(value) >= TruncateAt
  THEN JoinComma(SubSeq(value, 1, TruncateAt))
       \o <<".", ".", ".", " ", "(", "+">> \o IntToStr(Len(value) - TruncateAt)
       \o <<" ", "m", "o", "r", "e", ")">>
  ELSE JoinComma(value)

\* display, for a list value (every detail the checks produce is a list):
\*   ", ".join(value[:5]) + f"... (+{len(value) - 5} more)"  if len(value) > 5
\*   ", ".join(value)                                         otherwise
display(value) ==
  IF Len(value) > TruncateAt
  THEN JoinComma(SubSeq(value, 1, TruncateAt))
       \o <<".", ".", ".", " ", "(", "+">> \o IntToStr(Len(value) - TruncateAt)
       \o <<" ", "m", "o", "r", "e", ")">>
  ELSE JoinComma(value)

\* A printed line: what it is, its label, and its text.  The fixed text
\* of the banner, rule and message lines is left out.
Line(tag, key, text) == [tag |-> tag, key |-> key, text |-> text]

\* for key, value in result.details.items(): print(f"  {key}: {display}")
RECURSIVE DetailLines(_)
DetailLines(details) ==
  IF details = {} THEN <<>>
  ELSE LET d == CHOOSE x \in details : TRUE
       IN <<Line("detail", d[1], display(d[2]))>> \o DetailLines(details \ {d})

\* for result in items: the object line and, "if result.details", the
\* detail lines
RECURSIVE ItemLines(_)
ItemLines(items) ==
  IF items = <<>> THEN <<>>
  ELSE <<Line("finding", items[1].object_type, items[1].object_name)>>
       \o DetailLines(items[1].details)
       \o ItemLines(Tail(items))

\* by_severity[severity]
BySeverity(results, severity) == SelectSeq(results, LAMBDA r : r.severity = severity)

\* the block of one severity; nothing when it has no items
SeverityLines(results, severity) ==
  LET items == BySeverity(results, severity)
  IN IF items = <<>> THEN <<>>
     ELSE <<Line("severity", severity, IntToStr(Len(items)))>> \o ItemLines(items)

\* ConsoleReporter.report, as the lines it prints
report(results) ==
  IF results = <<>> THEN <<Line("banner", "", <<>>), Line("passed", "", <<>>)>>
  ELSE <<Line("banner", "", <<>>)>>
       \o SeverityLines(results, "ERROR")
       \o SeverityLines(results, "WARNING")
       \o SeverityLines(results, "INFO")
       \o <<Line("summary", "",
                 IntToStr(Len(BySeverity(results, "ERROR"))) \o <<",", " ">>
                   \o IntToStr(Len(BySeverity(results, "WARNING"))) \o <<",", " ">>
                   \o IntToStr(Len(BySeverity(results, "INFO"))))>>

(* ----------------------- snapshots and inputs -------------------------- *)

Digit == <<"1", "2", "3", "4", "5">>

CatalogName(i) == <<"c", Digit[i]>>

TableName(i) == <<"t", Digit[i]>>

Letter == <<"a", "b", "c", "d", "e", "f", "g", "h", "i", "j">>

ColumnName(i) == <<"c", "o", "l", "_", Letter[i]>>

c1 == CatalogName(1)

c2 == CatalogName(2)

s1 == <<"s", "1">>

s2 == <<"s", "2">>

t1 == TableName(1)

col_a == ColumnName(1)

Text == <<"x">>

\* None, "" and a text: the three kinds of comment or owner.
OptStrs == {None, Some(<<>>), Some(Text)}

\* Sequences of at most n elements of S.
SeqsUpTo(S, n) == UNION {[1..m -> S] : m \in 0..n}

\* Names are unique within their parent (spec.md, data model).
UniqueNames(seq) == \A i, j \in 1..Len(seq) : seq[i].name = seq[j].name => i = j

ColumnInfo(name, comment) == [name |-> name, comment |-> comment]

TableInfo(name, comment, owner, detail) ==
  [name |-> name, comment |-> comment, owner |-> owner, detail |-> detail]

SchemaInfo(name, comment, tables) == [name |-> name, comment |-> comment, tables |-> tables]

CatalogInfo(name, comment, schemas) == [name |-> name, comment |-> comment, schemas |-> schemas]

\* The undocumented table, schema and catalog of the scenarios of spec.md.
Table0(name) ==
  TableInfo(name, None, None, Return(Some(<<ColumnInfo(col_a, None)>>)))

Schema0(name) == SchemaInfo(name, None, Return(<<Table0(t1)>>))

Catalog0(schemas) == CatalogInfo(c1, None, schemas)

\* Snapshots that vary the catalog level: the catalog listing fails, or
\* lists up to MaxCatalogs catalogs in any order, each with any kind of
\* comment and a schema listing that fails or holds the schema s1, whose
\* table listing holds the table t1 or fails.
CatalogLevel ==
  LET pool == {CatalogInfo(CatalogName(i), c, s) :
                 i \in 1..MaxCatalogs, c \in OptStrs,
                 s \in {Raise, Return(<<Schema0(s1)>>),
                        Return(<<SchemaInfo(s1, None, Raise)>>)}}
  IN {[catalogs |-> Raise]} \cup
     {[catalogs |-> Return(cs)] : cs \in {q \in SeqsUpTo(pool, MaxCatalogs) : UniqueNames(q)}}

\* Snapshots that vary the schemas of catalog c1: up to MaxSchemas schemas
\* named s1, information (a proper prefix of the system prefix),
\* information_schema or information_schema_x, commented or not, whose
\* table listing fails, is empty or holds one table.
SchemaNames ==
  {s1, SubSeq(information_schema, 1, 11), information_schema,
   information_schema \o <<"_", "x">>}

SchemaLevel ==
  LET pool == {SchemaInfo(n, c, t) :
                 n \in SchemaNames, c \in {None, Some(Text)},
                 t \in {Raise, Return(<<>>), Return(<<Table0(t1)>>)}}
  IN {[catalogs |-> Return(<<Catalog0(Return(ss))>>)] :
        ss \in {q \in SeqsUpTo(pool, MaxSchemas) : UniqueNames(q)}}

\* Snapshots that vary the tables of schema c1.s1: up to MaxTables tables,
\* listed in an order that is not the order of their names, with any kind
\* of comment and owner, whose get_table fails or succeeds.
TableLevel ==
  LET attrs == {TableInfo(<<>>, c, o, d) :
                  c \in OptStrs, o \in OptStrs,
                  d \in {Raise, Return(Some(<<ColumnInfo(col_a, None)>>))}}
      named(q) == [k \in 1..Len(q) |->
                     [q[k] EXCEPT !.name = TableName(IF k = 1 THEN 2 ELSE IF k = 2 THEN 1 ELSE k)]]
  IN {[catalogs |-> Return(<<Catalog0(Return(<<SchemaInfo(s1, None, Return(named(q)))>>))>>)] :
        q \in SeqsUpTo(attrs, MaxTables)}

\* Snapshots that vary the columns of table c1.s1.t1: columns is None, or a
\* list of up to MaxCols columns with any kind of comment.
ColumnLevel ==
  LET named(q) == [k \in 1..Len(q) |->
                     ColumnInfo(ColumnName(IF k = 1 THEN 2 ELSE IF k = 2 THEN 1 ELSE k), q[k])]
      details == {Return(None)} \cup {Return(Some(named(q))) : q \in SeqsUpTo(OptStrs, MaxCols)}
  IN {[catalogs |-> Return(<<Catalog0(Return(<<SchemaInfo(s1, None,
                      Return(<<TableInfo(t1, Some(Text), Some(Text), d)>>))>>))>>)] :
        d \in details}

Snapshots == CatalogLevel \cup SchemaLevel \cup TableLevel \cup ColumnLevel

\* catalog_filter: None, "", or a catalog name.
CatalogFilters == {None, Some(<<>>), Some(c1), Some(c2)}

\* schema_filter: None, "", or a schema name.
SchemaFilters == {None, Some(<<>>), Some(s1)}

(* ------------------------------ behaviour ----------------------------- *)

Init ==
  /\ workspace \in Snapshots
  /\ pc = "idle"
  /\ call = [fn |-> "none", catalog_filter |-> None, schema_filter |-> None]
  /\ ret = Return(<<>>)
  /\ stdout = <<>>

Returns(fn, catalog_filter, schema_filter, r) ==
  /\ pc = "idle"
  /\ pc' = "returned"
  /\ call' = [fn |-> fn, catalog_filter |-> catalog_filter, schema_filter |-> schema_filter]
  /\ ret' = r
  /\ UNCHANGED <<workspace, stdout>>

CallCatalogComments ==
  Returns("check_catalog_comments", None, None, check_catalog_comments(workspace))

CallSchemaComments ==
  \E cf \in CatalogFilters :
    Returns("check_schema_comments", cf, None, check_schema_comments(workspace, cf))

CallTableComments ==
  \E cf \in CatalogFilters, sf \in SchemaFilters :
    Returns("check_table_comments", cf, sf, check_table_comments(workspace, cf, sf))

CallColumnComments ==
  \E cf \in CatalogFilters, sf \in SchemaFilters :
    Returns("check_column_comments", cf, sf, check_column_comments(workspace, cf, sf))

CallTableOwners ==
  \E cf \in CatalogFilters, sf \in SchemaFilters :
    Returns("check_table_owners", cf, sf, check_table_owners(workspace, cf, sf))

CallEmptySchemas ==
  \E cf \in CatalogFilters :
    Returns("check_empty_schemas", cf, None, check_empty_schemas(workspace, cf))

CallRunAllChecks ==
  \E cf \in CatalogFilters, sf \in SchemaFilters :
    Returns("run_all_checks", cf, sf, run_all_checks(workspace, cf, sf))

\* list(client.iter_all_tables(catalog_filter, schema_filter))
CallIterAllTables ==
  \E cf \in CatalogFilters, sf \in SchemaFilters :
    Returns("iter_all_tables", cf, sf, iter_all_tables(workspace, cf, sf))

Next ==
  \/ CallCatalogComments
  \/ CallSchemaComments
  \/ CallTableComments
  \/ CallColumnComments
  \/ CallTableOwners
  \/ CallEmptySchemas
  \/ CallRunAllChecks
  \/ CallIterAllTables

Spec == Init /\ [][Next]_vars

(* ------------------------- reading the results ------------------------ *)

Returned(fn) == pc = "returned" /\ call.fn = fn

\* The index of the first "." of an object name (Len + 1 when there is none).
FirstDot(name) ==
  LET dots == {i \in 1..Len(name) : name[i] = "."}
  IN IF dots = {} THEN Len(name) + 1 ELSE CHOOSE i \in dots : \A j \in dots : i <= j

\* The catalog segment of an object name: the text before its first ".".
CatalogSegment(name) == SubSeq(name, 1, FirstDot(name) - 1)

\* The schema segment of a schema or table name: the text between its
\* first "." and its second "." (or its end).
SchemaSegment(name) ==
  LET tail == SubSeq(name, FirstDot(name) + 1, Len(name))
  IN SubSeq(tail, 1, FirstDot(tail) - 1)

\* How many findings of a result list name the object.
Count(findings, object_name) ==
  Cardinality({k \in 1..Len(findings) : findings[k].object_name = object_name})

\* The check a call names, applied to a snapshot.
Apply(fn, w, cf, sf) ==
  CASE fn = "check_catalog_comments" -> check_catalog_comments(w)
    [] fn = "check_schema_comments" -> check_schema_comments(w, cf)
    [] fn = "check_table_comments" -> check_table_comments(w, cf, sf)
    [] fn = "check_column_comments" -> check_column_comments(w, cf, sf)
    [] fn = "check_table_owners" -> check_table_owners(w, cf, sf)
    [] fn = "check_empty_schemas" -> check_empty_schemas(w, cf)
    [] fn = "run_all_checks" -> run_all_checks(w, cf, sf)

\* The snapshot with the catalog taken out of the catalog listing.
WithoutCatalog(w, name) ==
  [catalogs |-> Return(SelectSeq(w.catalogs.value, LAMBDA c : c.name # name))]

\* Every call under the catalog succeeds.
AllAccessible(catalog) ==
  /\ ~catalog.schemas.raised
  /\ \A j \in 1..Len(catalog.schemas.value) :
       LET schema == catalog.schemas.value[j]
       IN /\ ~schema.tables.raised
          /\ \A k \in 1..Len(schema.tables.value) : ~schema.tables.value[k].detail.raised

(* -------------------------------- C1 ---------------------------------- *)

\* list_schemas("c2") raises and every other accessor call succeeds.
C2Inaccessible(w) ==
  /\ ~w.catalogs.raised
  /\ \E i \in 1..Len(w.catalogs.value) : w.catalogs.value[i].name = c2
  /\ \A i \in 1..Len(w.catalogs.value) :
       LET catalog == w.catalogs.value[i]
       IN IF catalog.name = c2 THEN catalog.schemas.raised ELSE AllAccessible(catalog)

\* C1: when list_schemas("c2") raises and every other accessor call
\* succeeds, check_schema_comments, check_table_comments and
\* check_empty_schemas return normally, no finding names an object of
\* catalog c2, and the findings are exactly those returned when c2 is
\* absent from the catalog listing.
C1_InaccessibleCatalogSkipped ==
  (/\ pc = "returned"
   /\ call.fn \in {"check_schema_comments", "check_table_comments", "check_empty_schemas"}
   /\ C2Inaccessible(workspace))
  => /\ ~ret.raised
     /\ \A k \in 1..Len(ret.value) : CatalogSegment(ret.value[k].object_name) # c2
     /\ ret.value = Apply(call.fn, WithoutCatalog(workspace, c2),
                          call.catalog_filter, call.schema_filter).value

\* c2 is listed first and fails; c1, listed after it, is still reported.
C1_Witness ==
  /\ Returned("check_table_comments")
  /\ C2Inaccessible(workspace)
  /\ Len(workspace.catalogs.value) = 2
  /\ workspace.catalogs.value[1].name = c2
  /\ call.catalog_filter = None
  /\ Len(ret.value) = 1
  /\ CatalogSegment(ret.value[1].object_name) = c1

(* -------------------------------- C2 ---------------------------------- *)

\* Some list_schemas, list_tables or get_table call of the snapshot fails.
SomeInnerFailure(w) ==
  \E i \in 1..Len(w.catalogs.value) : ~AllAccessible(w.catalogs.value[i])

\* C2: whenever list_catalogs succeeds, each of the six checks and
\* run_all_checks returns a finding list and does not raise, whichever
\* list_schemas, list_tables and get_table calls fail.
C2_InnerFailuresNeverSurface ==
  (pc = "returned" /\ ~list_catalogs(workspace).raised) => ~ret.raised

\* get_table fails for a listed table and run_all_checks still returns.
C2_Witness ==
  /\ Returned("run_all_checks")
  /\ ~workspace.catalogs.raised
  /\ \E i \in 1..Len(workspace.catalogs.value) :
       LET catalog == workspace.catalogs.value[i]
       IN /\ ~catalog.schemas.raised
          /\ \E j \in 1..Len(catalog.schemas.value) :
               LET schema == catalog.schemas.value[j]
               IN /\ ~schema.tables.raised
                  /\ \E k \in 1..Len(schema.tables.value) :
                       schema.tables.value[k].detail.raised
  /\ ~ret.raised
  /\ Len(ret.value) > 0

(* -------------------------------- C3 ---------------------------------- *)

\* C3: a failure of list_catalogs is propagated by every check and by
\* run_all_checks, never turned into a finding list.
C3_TopLevelFailurePropagates ==
  (pc = "returned" /\ list_catalogs(workspace).raised) => ret.raised

C3_Witness ==
  /\ Returned("check_empty_schemas")
  /\ list_catalogs(workspace).raised
  /\ ret.raised

(* -------------------------------- C4 ---------------------------------- *)

\* C4: check_catalog_comments returns exactly one finding (catalog_comment,
\* WARNING, named after the catalog) for each listed catalog whose comment
\* is absent or the empty string, and none for a catalog whose comment is
\* non-empty.
C4_CatalogComments ==
  (Returned("check_catalog_comments") /\ ~list_catalogs(workspace).raised)
  => LET catalogs == workspace.catalogs.value
     IN /\ ~ret.raised
        /\ \A i \in 1..Len(catalogs) :
             Count(ret.value, catalogs[i].name) =
               IF catalogs[i].comment = None \/ catalogs[i].comment = Some(<<>>)
               THEN 1 ELSE 0
        /\ \A k \in 1..Len(ret.value) :
             /\ ret.value[k].check_name = "catalog_comment"
             /\ ret.value[k].severity = "WARNING"
             /\ ret.value[k].object_type = "catalog"
             /\ \E i \in 1..Len(catalogs) : ret.value[k].object_name = catalogs[i].name

\* One catalog with an empty comment, one with a text: one finding.
C4_Witness ==
  /\ Returned("check_catalog_comments")
  /\ ~workspace.catalogs.raised
  /\ \E i, j \in 1..Len(workspace.catalogs.value) :
       /\ workspace.catalogs.value[i].comment = Some(<<>>)
       /\ workspace.catalogs.value[j].comment = Some(Text)
       /\ ret.value = <<CheckResult("catalog_comment", "WARNING", "catalog",
                                    workspace.catalogs.value[i].name, {})>>

(* -------------------------------- C5 ---------------------------------- *)

\* The names of the columns of a column list whose comment is absent or "".
Uncommented(columns) ==
  {columns[n].name : n \in {m \in 1..Len(columns) :
                              columns[m].comment = None \/ columns[m].comment = Some(<<>>)}}

\* C5: check_column_comments emits at most one finding per traversed
\* table; for a table whose column fetch succeeds there is a finding iff
\* some column has an absent or empty comment, and its details["columns"]
\* lists exactly the names of those columns; a table without columns or
\* with every column commented has no finding.
C5_ColumnComments ==
  Returned("check_column_comments")
  => LET it == iter_all_tables(workspace, call.catalog_filter, call.schema_filter)
     IN ~ret.raised /\ ~it.raised =>
        \A n \in 1..Len(it.value) :
          LET y == it.value[n]
              full_name == TableFullName(y.catalog_name, y.schema_name, y.table.name)
              hits == {k \in 1..Len(ret.value) : ret.value[k].object_name = full_name}
              detail == y.table.detail
              columns == IF detail.value = None THEN <<>> ELSE detail.value[1]
          IN /\ Cardinality(hits) <= 1
             /\ ~detail.raised =>
                  /\ (hits # {}) <=> (Uncommented(columns) # {})
                  /\ \A k \in hits :
                       \E listed \in SeqsUpTo(Uncommented(columns), Len(columns)) :
                         /\ ret.value[k].details = {<<"columns", listed>>}
                         /\ Len(listed) = Cardinality(Uncommented(columns))
                         /\ {listed[m] : m \in 1..Len(listed)} = Uncommented(columns)
                         /\ ret.value[k].check_name = "column_comment"
                         /\ ret.value[k].severity = "INFO"

\* A table with a commented and an uncommented column: one finding that
\* lists the uncommented column alone.
C5_Witness ==
  /\ Returned("check_column_comments")
  /\ Len(ret.value) = 1
  /\ \E a, b \in {ColumnName(1), ColumnName(2)} :
       /\ a # b
       /\ ret.value[1].details = {<<"columns", <<a>> >>}
       /\ get_table_columns(workspace, ret.value[1].object_name).value
            \in {<<ColumnInfo(a, c), ColumnInfo(b, Some(Text))>> : c \in {None, Some(<<>>)}}
               \cup {<<ColumnInfo(b, Some(Text)), ColumnInfo(a, c)>> : c \in {None, Some(<<>>)}}

(* -------------------------------- C6 ---------------------------------- *)

\* The checks that accept catalog_filter.
FilteredChecks ==
  {"check_schema_comments", "check_table_comments", "check_column_comments",
   "check_table_owners", "check_empty_schemas"}

\* C6 as stated: whenever a check that accepts catalog_filter is given one
\* (any str, the empty string included), every finding's catalog segment
\* equals the filter value.
C6_AsStated ==
  (pc = "returned" /\ call.fn \in FilteredChecks /\ call.catalog_filter # None /\ ~ret.raised)
  => \A k \in 1..Len(ret.value) :
       CatalogSegment(ret.value[k].object_name) = call.catalog_filter[1]

\* C6, amended: whenever a check that accepts catalog_filter is given a
\* non-empty catalog_filter, every finding's catalog segment equals the
\* filter value (the empty string is treated as no filter).
C6_NonEmptyFilterRestricts ==
  (pc = "returned" /\ call.fn \in FilteredChecks /\ call.catalog_filter \notin {None, Some(<<>>)}
     /\ ~ret.raised)
  => \A k \in 1..Len(ret.value) :
       CatalogSegment(ret.value[k].object_name) = call.catalog_filter[1]

\* Two listed catalogs with an uncommented schema each, filter c1: the
\* one finding is c1's.
C6_Witness ==
  /\ Returned("check_schema_comments")
  /\ call.catalog_filter = Some(c1)
  /\ ~workspace.catalogs.raised
  /\ Len(workspace.catalogs.value) = 2
  /\ \A i \in 1..2 : /\ ~workspace.catalogs.value[i].schemas.raised
                     /\ workspace.catalogs.value[i].schemas.value[1].comment = None
  /\ Len(ret.value) = 1
  /\ ret.value[1].object_name = SchemaFullName(c1, s1)

(* -------------------------------- C7 ---------------------------------- *)

\* name begins with the text information_schema.
HasSystemPrefix(name) ==
  /\ Len(name) >= Len(information_schema)
  /\ \A n \in 1..Len(information_schema) : name[n] = information_schema[n]

\* C7: check_empty_schemas produces no finding for a schema whose name
\* begins with information_schema, whatever its table listing; every other
\* schema of a visited catalog whose table listing succeeds and is empty
\* produces exactly one INFO finding, and no other schema produces one.
C7_EmptySchemas ==
  (Returned("check_empty_schemas") /\ ~ret.raised)
  => LET catalogs == workspace.catalogs.value
     IN /\ \A i \in 1..Len(catalogs) : \A j \in 1..Len(catalogs[i].schemas.value) :
             LET schema == catalogs[i].schemas.value[j]
                 full_name == SchemaFullName(catalogs[i].name, schema.name)
                 visited == call.catalog_filter \in {None, Some(<<>>), Some(catalogs[i].name)}
             IN /\ HasSystemPrefix(schema.name) => Count(ret.value, full_name) = 0
                /\ (~HasSystemPrefix(schema.name) /\ visited) =>
                     Count(ret.value, full_name) =
                       IF ~schema.tables.raised /\ schema.tables.value = <<>> THEN 1 ELSE 0
        /\ \A k \in 1..Len(ret.value) :
             /\ ret.value[k].check_name = "empty_schema"
             /\ ret.value[k].severity = "INFO"
             /\ ret.value[k].object_type = "schema"

\* An empty information_schema_x beside an empty schema information: the
\* one finding is for the latter.
C7_Witness ==
  /\ Returned("check_empty_schemas")
  /\ ~workspace.catalogs.raised
  /\ Len(workspace.catalogs.value) = 1
  /\ ~workspace.catalogs.value[1].schemas.raised
  /\ LET schemas == workspace.catalogs.value[1].schemas.value
     IN /\ Len(schemas) = 2
        /\ schemas[1].name = information_schema \o <<"_", "x">>
        /\ schemas[1].tables = Return(<<>>)
        /\ schemas[2].name = SubSeq(information_schema, 1, 11)
        /\ schemas[2].tables = Return(<<>>)
        /\ Len(ret.value) = 1
        /\ ret.value[1].object_name = SchemaFullName(c1, schemas[2].name)

(* -------------------------------- C8 ---------------------------------- *)

\* C8: run_all_checks returns the concatenation of the lists of the six
\* checks for the same filters, in the order catalog-comments,
\* schema-comments, table-comments, column-comments, table-owners,
\* empty-schemas; its length is the sum of their lengths.
C8_Concatenation ==
  (Returned("run_all_checks") /\ ~ret.raised)
  => LET cf == call.catalog_filter
         sf == call.schema_filter
         a == check_catalog_comments(workspace).value
         b == check_schema_comments(workspace, cf).value
         c == check_table_comments(workspace, cf, sf).value
         d == check_column_comments(workspace, cf, sf).value
         e == check_table_owners(workspace, cf, sf).value
         f == check_empty_schemas(workspace, cf).value
     IN /\ ret.value = a \o b \o c \o d \o e \o f
        /\ Len(ret.value) = Len(a) + Len(b) + Len(c) + Len(d) + Len(e) + Len(f)

\* A run in which every one of the six checks contributes a finding.
C8_Witness ==
  /\ Returned("run_all_checks")
  /\ ~ret.raised
  /\ \A name \in {"catalog_comment", "schema_comment", "table_comment",
                  "column_comment", "table_owner", "empty_schema"} :
       \E k \in 1..Len(ret.value) : ret.value[k].check_name = name

(* -------------------------------- C9 ---------------------------------- *)

\* C9 as stated: every check's contribution to the output of
\* run_all_checks is restricted by both filters.
C9_AsStated ==
  (Returned("run_all_checks") /\ ~ret.raised
     /\ call.catalog_filter \notin {None, Some(<<>>)}
     /\ call.schema_filter \notin {None, Some(<<>>)})
  => \A k \in 1..Len(ret.value) :
       /\ CatalogSegment(ret.value[k].object_name) = call.catalog_filter[1]
       /\ ret.value[k].object_type # "catalog" =>
            SchemaSegment(ret.value[k].object_name) = call.schema_filter[1]

\* C9, amended: run_all_checks passes catalog_filter to every check but
\* the catalog-comment check, which takes no filter, and schema_filter to
\* the three table-level checks only.  With a non-empty catalog_filter
\* every finding other than a catalog_comment has the filter as its
\* catalog segment; with a non-empty schema_filter every table_comment,
\* column_comment and table_owner finding has the filter as its schema
\* segment.
C9_FiltersPassedThrough ==
  (Returned("run_all_checks") /\ ~ret.raised)
  => /\ call.catalog_filter \notin {None, Some(<<>>)} =>
          \A k \in 1..Len(ret.value) :
            ret.value[k].check_name # "catalog_comment" =>
              CatalogSegment(ret.value[k].object_name) = call.catalog_filter[1]
     /\ call.schema_filter \notin {None, Some(<<>>)} =>
          \A k \in 1..Len(ret.value) :
            ret.value[k].check_name \in {"table_comment", "column_comment", "table_owner"} =>
              SchemaSegment(ret.value[k].object_name) = call.schema_filter[1]

\* Filters c1 and s1: the output holds a catalog_comment finding for c2
\* and the schema and table findings of c1 alone.
C9_Witness ==
  /\ Returned("run_all_checks")
  /\ ~ret.raised
  /\ call.catalog_filter = Some(c1)
  /\ call.schema_filter = Some(s1)
  /\ \E k \in 1..Len(ret.value) :
       ret.value[k].check_name = "catalog_comment" /\ ret.value[k].object_name = c2
  /\ \E k \in 1..Len(ret.value) :
       ret.value[k].check_name = "table_owner"
       /\ ret.value[k].object_name = TableFullName(c1, s1, t1)
  /\ \E i \in 1..Len(workspace.catalogs.value) :
       /\ workspace.catalogs.value[i].name = c2
       /\ ~workspace.catalogs.value[i].schemas.raised

(* -------------------------------- C10 --------------------------------- *)

\* Catalog c1 without comment, its one schema s1 without comment, whose
\* one table t1 has no comment, no owner and the uncommented column col_a.
ScenarioC1 == [catalogs |-> Return(<<Catalog0(Return(<<Schema0(s1)>>))>>)]

ScenarioC1Run ==
  /\ Returned("run_all_checks")
  /\ call.catalog_filter = None
  /\ call.schema_filter = None
  /\ workspace = ScenarioC1

c1_s1 == SchemaFullName(c1, s1)

c1_s1_t1 == TableFullName(c1, s1, t1)

\* C10 as stated: the scenario yields six findings, the last of them
\* empty_schema(c1.s1).
C10_AsStated ==
  ScenarioC1Run
  => ret = Return(<<CheckResult("catalog_comment", "WARNING", "catalog", c1, {}),
                    CheckResult("schema_comment", "WARNING", "schema", c1_s1, {}),
                    CheckResult("table_comment", "WARNING", "table", c1_s1_t1, {}),
                    CheckResult("column_comment", "INFO", "table", c1_s1_t1,
                                {<<"columns", <<col_a>> >>}),
                    CheckResult("table_owner", "WARNING", "table", c1_s1_t1, {}),
                    CheckResult("empty_schema", "INFO", "schema", c1_s1, {})>>)

\* C10, amended: the scenario, in which schema c1.s1 holds the table t1,
\* yields exactly five findings in this order: catalog_comment(c1),
\* schema_comment(c1.s1), table_comment(c1.s1.t1), column_comment(c1.s1.t1,
\* columns = [col_a]), table_owner(c1.s1.t1); there is no empty_schema
\* finding, since the schema is not empty.
C10_ScenarioFindings ==
  ScenarioC1Run
  => ret = Return(<<CheckResult("catalog_comment", "WARNING", "catalog", c1, {}),
                    CheckResult("schema_comment", "WARNING", "schema", c1_s1, {}),
                    CheckResult("table_comment", "WARNING", "table", c1_s1_t1, {}),
                    CheckResult("column_comment", "INFO", "table", c1_s1_t1,
                                {<<"columns", <<col_a>> >>}),
                    CheckResult("table_owner", "WARNING", "table", c1_s1_t1, {})>>)

C10_Witness == ScenarioC1Run /\ Len(ret.value) = 5

(* -------------------------------- C11 --------------------------------- *)

AllChecks ==
  {"check_catalog_comments", "check_schema_comments", "check_table_comments",
   "check_column_comments", "check_table_owners", "check_empty_schemas", "run_all_checks"}

\* The finding names an object that the accessor returned: a catalog of
\* the catalog listing, a schema of a schema listing that succeeded, or a
\* table of a table listing that succeeded under such a schema listing.
ReferencesListedObject(w, finding) ==
  LET catalogs == w.catalogs.value
  IN \E i \in 1..Len(catalogs) :
       \/ /\ finding.object_type = "catalog"
          /\ finding.object_name = catalogs[i].name
       \/ /\ ~catalogs[i].schemas.raised
          /\ \E j \in 1..Len(catalogs[i].schemas.value) :
               LET schema == catalogs[i].schemas.value[j]
               IN \/ /\ finding.object_type = "schema"
                     /\ finding.object_name = catalogs[i].name \o <<".">> \o schema.name
                  \/ /\ ~schema.tables.raised
                     /\ \E k \in 1..Len(schema.tables.value) :
                          /\ finding.object_type = "table"
                          /\ finding.object_name =
                               catalogs[i].name \o <<".">> \o schema.name \o <<".">>
                                 \o schema.tables.value[k].name

\* C11: every finding returned by a check or by run_all_checks names an
\* object the accessor returned during the scan: a listed catalog, a
\* schema listed for a listed catalog, or a table listed for such a
\* schema; none names an object under a listing that failed.
C11_FindingsReferenceListedObjects ==
  (pc = "returned" /\ call.fn \in AllChecks /\ ~ret.raised)
  => \A n \in 1..Len(ret.value) : ReferencesListedObject(workspace, ret.value[n])

\* A run over a snapshot with a failing table listing that returns catalog,
\* schema and table findings.
C11_Witness ==
  /\ Returned("run_all_checks")
  /\ ~ret.raised
  /\ \E i \in 1..Len(workspace.catalogs.value) :
       /\ ~workspace.catalogs.value[i].schemas.raised
       /\ \E j \in 1..Len(workspace.catalogs.value[i].schemas.value) :
            workspace.catalogs.value[i].schemas.value[j].tables.raised
  /\ \A type \in {"catalog", "schema", "table"} :
       \E n \in 1..Len(ret.value) : ret.value[n].object_type = type

(* -------------------------------- C13 --------------------------------- *)

\* The filter is unset (None or "") or names the object.
Matches(filter, name) == filter \in {None, Some(<<>>), Some(name)}

\* How many yielded triples are the table of the schema of the catalog.
Yielded(triples, catalog_name, schema_name, table) ==
  Cardinality({n \in 1..Len(triples) :
                 /\ triples[n].catalog_name = catalog_name
                 /\ triples[n].schema_name = schema_name
                 /\ triples[n].table = table})

\* Some schema of an accessible catalog has a failing table listing.
SomeTableListingFails(w) ==
  /\ ~w.catalogs.raised
  /\ \E i \in 1..Len(w.catalogs.value) :
       /\ ~w.catalogs.value[i].schemas.raised
       /\ \E j \in 1..Len(w.catalogs.value[i].schemas.value) :
            w.catalogs.value[i].schemas.value[j].tables.raised

\* C13: a list_tables failure for one schema skips that schema alone.
\* iter_all_tables yields nothing for the failing schema and yields
\* exactly once every table of every other matching schema, of the same
\* or of another matching catalog, whose listings succeed; and
\* check_empty_schemas emits no finding for the failing schema and still
\* reports its empty sibling schemas.
C13_FailingSchemaSkippedAlone ==
  (pc = "returned" /\ SomeTableListingFails(workspace))
  => LET catalogs == workspace.catalogs.value
     IN \A i \in 1..Len(catalogs) : \A j \in 1..Len(catalogs[i].schemas.value) :
          LET schema == catalogs[i].schemas.value[j]
              full_name == catalogs[i].name \o <<".">> \o schema.name
          IN /\ call.fn = "iter_all_tables" =>
                  /\ ~ret.raised
                  /\ schema.tables.raised =>
                       \A n \in 1..Len(ret.value) :
                         ~(/\ ret.value[n].catalog_name = catalogs[i].name
                           /\ ret.value[n].schema_name = schema.name)
                  /\ (/\ ~schema.tables.raised
                      /\ Matches(call.catalog_filter, catalogs[i].name)
                      /\ Matches(call.schema_filter, schema.name)) =>
                       \A k \in 1..Len(schema.tables.value) :
                         Yielded(ret.value, catalogs[i].name, schema.name,
                                 schema.tables.value[k]) = 1
             /\ call.fn = "check_empty_schemas" =>
                  /\ ~ret.raised
                  /\ schema.tables.raised => Count(ret.value, full_name) = 0
                  /\ (/\ schema.tables = Return(<<>>)
                      /\ ~HasSystemPrefix(schema.name)
                      /\ Matches(call.catalog_filter, catalogs[i].name)) =>
                       Count(ret.value, full_name) = 1

\* The first schema's table listing fails and the table of the second
\* schema is yielded.
C13_Witness ==
  /\ Returned("iter_all_tables")
  /\ ~workspace.catalogs.raised
  /\ Len(workspace.catalogs.value) = 1
  /\ ~workspace.catalogs.value[1].schemas.raised
  /\ LET schemas == workspace.catalogs.value[1].schemas.value
     IN /\ Len(schemas) = 2
        /\ schemas[1].tables.raised
        /\ ~schemas[2].tables.raised
        /\ Len(schemas[2].tables.value) = 1
        /\ ret.value = <<[catalog_name |-> c1, schema_name |-> schemas[2].name,
                          table |-> schemas[2].tables.value[1]]>>

(* -------------------------------- C14 --------------------------------- *)

\* The sequence without its k-th element.
Remove(seq, k) == SubSeq(seq, 1, k - 1) \o SubSeq(seq, k + 1, Len(seq))

\* The snapshot in which the table listing of schema j of catalog i lacks
\* its k-th table.
WithoutTable(w, i, j, k) ==
  [w EXCEPT !.catalogs.value[i].schemas.value[j].tables.value = Remove(@, k)]

\* C14: in check_column_comments a get_table failure for one table skips
\* that table alone: it has no finding, and the findings returned are
\* those returned when the failing table is absent from its listing.
C14_FailingTableSkippedAlone ==
  (Returned("check_column_comments") /\ ~workspace.catalogs.raised)
  => LET catalogs == workspace.catalogs.value
     IN /\ ~ret.raised
        /\ \A i \in 1..Len(catalogs) : \A j \in 1..Len(catalogs[i].schemas.value) :
             LET schema == catalogs[i].schemas.value[j]
             IN \A k \in 1..Len(schema.tables.value) :
                  schema.tables.value[k].detail.raised =>
                    /\ Count(ret.value,
                             catalogs[i].name \o <<".">> \o schema.name \o <<".">>
                               \o schema.tables.value[k].name) = 0
                    /\ ret.value = check_column_comments(WithoutTable(workspace, i, j, k),
                                     call.catalog_filter, call.schema_filter).value

\* get_table fails for the first listed table and the second listed table
\* is reported.
C14_Witness ==
  /\ Returned("check_column_comments")
  /\ call.catalog_filter = None
  /\ call.schema_filter = None
  /\ ~workspace.catalogs.raised
  /\ Len(workspace.catalogs.value) = 1
  /\ ~workspace.catalogs.value[1].schemas.raised
  /\ Len(workspace.catalogs.value[1].schemas.value) = 1
  /\ LET tables == workspace.catalogs.value[1].schemas.value[1].tables
     IN /\ ~tables.raised
        /\ Len(tables.value) = 2
        /\ tables.value[1].detail.raised
        /\ ~tables.value[2].detail.raised
        /\ Len(ret.value) = 1
        /\ ret.value[1].object_name = TableFullName(c1, s1, tables.value[2].name)

(* -------------------------------- C15 --------------------------------- *)

TableChecks == {"check_table_comments", "check_column_comments", "check_table_owners"}

\* The <<i, j, k>> of every listed table: table k of the table listing of
\* schema j of the schema listing of catalog i.
Listed(w) ==
  LET catalogs == w.catalogs.value
  IN UNION {UNION {{<<i, j, k>> : k \in 1..Len(catalogs[i].schemas.value[j].tables.value)}
                   : j \in 1..Len(catalogs[i].schemas.value)}
            : i \in 1..Len(catalogs)}

ListedName(w, p) ==
  LET catalog == w.catalogs.value[p[1]]
      schema == catalog.schemas.value[p[2]]
  IN catalog.name \o <<".">> \o schema.name \o <<".">> \o schema.tables.value[p[3]].name

\* The place in the listings of the table with this three-part name.
Place(w, full_name) == CHOOSE p \in Listed(w) : ListedName(w, p) = full_name

\* p comes before q in listing order.
Before(p, q) ==
  \/ p[1] < q[1]
  \/ p[1] = q[1] /\ p[2] < q[2]
  \/ p[1] = q[1] /\ p[2] = q[2] /\ p[3] < q[3]

\* The listed tables the filters of the call select.
Selected(w, catalog_filter, schema_filter) ==
  {p \in Listed(w) :
     /\ Matches(catalog_filter, w.catalogs.value[p[1]].name)
     /\ Matches(schema_filter, w.catalogs.value[p[1]].schemas.value[p[2]].name)}

\* C15: iter_all_tables yields the selected tables in listing order
\* (catalogs in list_catalogs order, schemas in list_schemas order, tables
\* in list_tables order), each exactly once and with no sorting; the
\* findings of each table-level check appear in the same relative order.
C15_ListingOrder ==
  (pc = "returned" /\ ~ret.raised)
  => /\ call.fn = "iter_all_tables" =>
          /\ Len(ret.value) =
               Cardinality(Selected(workspace, call.catalog_filter, call.schema_filter))
          /\ \A n \in 1..Len(ret.value) :
               LET y == ret.value[n]
                   full_name == y.catalog_name \o <<".">> \o y.schema_name \o <<".">> \o y.table.name
               IN /\ \E p \in Listed(workspace) : ListedName(workspace, p) = full_name
                  /\ \A m \in 1..(n - 1) :
                       Before(Place(workspace,
                                    ret.value[m].catalog_name \o <<".">>
                                      \o ret.value[m].schema_name \o <<".">>
                                      \o ret.value[m].table.name),
                              Place(workspace, full_name))
     /\ call.fn \in TableChecks =>
          \A n \in 1..Len(ret.value) : \A m \in 1..(n - 1) :
            Before(Place(workspace, ret.value[m].object_name),
                   Place(workspace, ret.value[n].object_name))

\* Tables listed as t2, t1 are yielded as t2, t1.
C15_Witness ==
  /\ Returned("iter_all_tables")
  /\ ~ret.raised
  /\ Len(ret.value) = 2
  /\ ret.value[1].schema_name = ret.value[2].schema_name
  /\ ret.value[1].table.name = TableName(2)
  /\ ret.value[2].table.name = TableName(1)

(* -------------------------------- C16 --------------------------------- *)

InSchemasNamed(w, schema_name) ==
  {p \in Listed(w) : w.catalogs.value[p[1]].schemas.value[p[2]].name = schema_name}

ColumnNames(n) == [k \in 1..n |-> ColumnName(k)]

\* Results handed to the reporter: up to two findings, each a
\* catalog_comment WARNING without details, or a finding of any severity
\* whose details list 0..MaxDetail column names.
ReportedResults ==
  LET pool == {CheckResult("catalog_comment", "WARNING", "catalog", c1, {})}
              \cup {CheckResult("column_comment", v, "table", TableFullName(c1, s1, t1),
                                {<<"columns", ColumnNames(n)>>}) :
                      n \in 0..MaxDetail, v \in {"INFO", "ERROR"}}
  IN SeqsUpTo(pool, 2)

\* The caller holds a result list.
InitReport ==
  /\ workspace = [catalogs |-> Return(<<>>)]
  /\ pc = "returned"
  /\ call = [fn |-> "run_all_checks", catalog_filter |-> None, schema_filter |-> None]
  /\ ret \in {Return(results) : results \in ReportedResults}
  /\ stdout = <<>>

\* reporter.report(results)
Report ==
  /\ pc = "returned"
  /\ ~ret.raised
  /\ pc' = "reported"
  /\ stdout' = report(ret.value)
  /\ UNCHANGED <<workspace, call, ret>>

SpecReport == InitReport /\ [][Report]_vars

(* -------------------------------- C12 --------------------------------- *)

\* The entries joined by ", ", built from the last entry backwards.
RECURSIVE Joined(_)
Joined(list) ==
  IF Len(list) = 0 THEN <<>>
  ELSE IF Len(list) = 1 THEN list[1]
  ELSE Joined(SubSeq(list, 1, Len(list) - 1)) \o <<",", " ">> \o list[Len(list)]

\* The rendering the claim states for a list of n entries (n - 5 < 10).
Rendering(list) ==
  IF Len(list) > 5
  THEN Joined(SubSeq(list, 1, 5)) \o <<".", ".", ".", " ", "(", "+">>
       \o <<DecimalDigit[Len(list) - 5 + 1]>> \o <<" ", "m", "o", "r", "e", ")">>
  ELSE Joined(list)

\* The lists of the details of the reported findings.
DetailLists(results) ==
  {d[2] : d \in UNION {results[n].details : n \in 1..Len(results)}}

\* C12: ConsoleReporter.report renders a list-valued detail of length n
\* as its first 5 entries joined by ", " followed by "... (+(n-5) more)"
\* when n > 5, and as all its entries joined by ", " with no suffix when
\* n <= 5; one detail line per detail of a finding.
C12_DetailRendering ==
  pc = "reported"
  => LET lines == SelectSeq(stdout, LAMBDA l : l.tag = "detail")
     IN /\ Len(lines) =
             Cardinality({n \in 1..Len(ret.value) : ret.value[n].details # {}})
        /\ \A list \in DetailLists(ret.value) :
             \E m \in 1..Len(lines) :
               lines[m].key = "columns" /\ lines[m].text = Rendering(list)
        /\ \A m \in 1..Len(lines) :
             \E list \in DetailLists(ret.value) : lines[m].text = Rendering(list)

\* Seven column names print as "col_a, col_b, col_c, col_d, col_e... (+2 more)".
C12_Witness ==
  /\ pc = "reported"
  /\ Len(ret.value) = 1
  /\ ret.value[1].details = {<<"columns", ColumnNames(7)>>}
  /\ \E m \in 1..Len(stdout) :
       /\ stdout[m].tag = "detail"
       /\ stdout[m].text =
            <<"c", "o", "l", "_", "a", ",", " ", "c", "o", "l", "_", "b", ",", " ",
              "c", "o", "l", "_", "c", ",", " ", "c", "o", "l", "_", "d", ",", " ",
              "c", "o", "l", "_", "e", ".", ".", ".", " ", "(", "+", "2", " ",
              "m", "o", "r", "e", ")">>

====
